---- MODULE Spec2Model ----
(***************************************************************************)
(* A model of the atom tree engine of mp4ameta: the recursive scan of the  *)
(* length-prefixed atoms of an MPEG-4 byte stream against a template tree  *)
(* (mp4meta/src/atom.rs) and the identifier model (src/atom/ident.rs).     *)
(*                                                                         *)
(* The reader is a byte sequence `stream` and a read position `pos`.  The  *)
(* template tree is a heap `atoms` of Atom records addressed by node       *)
(* numbers; a Content::Atoms holds the node numbers of its children.  The  *)
(* call stack of parse / parse_atoms / read_from is the sequence `stack`.  *)
(***************************************************************************)
EXTENDS Integers, Sequences, FiniteSets, TLC

\* ------------------------------------------------------------------------
\* Identifiers of atom.rs (4 bytes each)
\* ------------------------------------------------------------------------
FILE_TYPE == <<102, 116, 121, 112>>
MOVIE == <<109, 111, 111, 118>>
USER_DATA == <<117, 100, 116, 97>>
METADATA == <<109, 101, 116, 97>>
ITEM_LIST == <<105, 108, 115, 116>>
ALBUM == <<169, 97, 108, 98>>
ALBUM_ARTIST == <<97, 65, 82, 84>>
ARTIST == <<169, 65, 82, 84>>
ARTWORK == <<99, 111, 118, 114>>
BPM == <<116, 109, 112, 111>>
COMMENT == <<169, 99, 109, 116>>
COMPILATION == <<99, 112, 105, 108>>
COMPOSER == <<169, 119, 114, 116>>
COPYRIGHT == <<99, 112, 114, 116>>
CUSTOM_GENRE == <<169, 103, 101, 110>>
DISK_NUMBER == <<100, 105, 115, 107>>
ENCODER == <<169, 116, 111, 111>>
RATING == <<114, 116, 110, 103>>
STANDARD_GENRE == <<103, 110, 114, 101>>
TITLE == <<169, 110, 97, 109>>
TRACK_NUMBER == <<116, 114, 107, 110>>
YEAR == <<169, 100, 97, 121>>
GROUPING == <<169, 103, 114, 112>>
MEDIA_TYPE == <<115, 116, 105, 107>>
CATEGORY == <<99, 97, 116, 103>>
EPISODE_GLOBAL_UNIQUE_ID == <<101, 103, 105, 100>>
KEYWORD == <<107, 101, 121, 119>>
PODCAST == <<112, 99, 115, 116>>
PODCAST_URL == <<112, 117, 114, 108>>
DESCRIPTION == <<100, 101, 115, 99>>
LYRICS == <<169, 108, 121, 114>>
TV_EPISODE == <<116, 118, 101, 115>>
TV_EPISODE_NUMBER == <<116, 118, 101, 110>>
TV_NETWORK_NAME == <<116, 118, 110, 110>>
TV_SEASON == <<116, 118, 115, 110>>
TV_SHOW_NAME == <<116, 118, 115, 104>>
PURCHASE_DATE == <<112, 117, 114, 100>>
GAPLESS_PLAYBACK == <<112, 103, 97, 112>>

\* The children of `ilst` in metadata_atom(), in list order.
IlstHeads ==
  << ALBUM, ALBUM_ARTIST, ARTIST, ARTWORK,
     BPM, CATEGORY, COMMENT, COMPILATION,
     COMPOSER, COPYRIGHT, CUSTOM_GENRE, DESCRIPTION,
     DISK_NUMBER, ENCODER, EPISODE_GLOBAL_UNIQUE_ID, GAPLESS_PLAYBACK,
     GROUPING, KEYWORD, LYRICS, MEDIA_TYPE,
     PODCAST, PODCAST_URL, PURCHASE_DATE, RATING,
     STANDARD_GENRE, TITLE, TRACK_NUMBER, TV_EPISODE,
     TV_EPISODE_NUMBER, TV_NETWORK_NAME, TV_SEASON, TV_SHOW_NAME,
     YEAR >>

\* Identifier of the typed `data` sub-atom (Atom::data_atom).
DATA == <<100, 97, 116, 97>>
\* An identifier no template of this model asks for (`free`).
FREE == <<102, 114, 101, 101>>

\* "M4A " and "M4B " as bytes.
VALID_FILE_TYPES == << <<77, 52, 65, 32>>, <<77, 52, 66, 32>> >>

\* Size of the length + head prefix read by parse_head.
HeadLen == 8

\* ------------------------------------------------------------------------
\* Bytes
\* ------------------------------------------------------------------------
Byte == 0..255

\* Big-endian encoding of a 32 bit unsigned integer (the stream framing).
U32(n) ==
  << (n \div 16777216) % 256, (n \div 65536) % 256, (n \div 256) % 256, n % 256 >>

\* usize values that come from the stream can exceed the integers of the
\* model checker: a length is kept as hi * 2^24 + lo with 0 <= lo < 2^24.
Radix == 16777216

Norm(hi, lo) == [hi |-> hi + (lo \div Radix), lo |-> lo % Radix]

\* The usize of a (small) natural number.
Usize(n) == Norm(0, n)

Add(x, y) == Norm(x.hi + y.hi, x.lo + y.lo)

\* x - k for a small k <= x.
Sub(x, k) == IF x.lo >= k THEN [hi |-> x.hi, lo |-> x.lo - k]
             ELSE [hi |-> x.hi - 1, lo |-> x.lo + Radix - k]

Less(x, y) == x.hi < y.hi \/ (x.hi = y.hi /\ x.lo < y.lo)

Leq(x, y) == ~Less(y, x)

\* reader.read_u32::<BigEndian>() applied to 4 bytes, `as usize`.
U32Of(b) == [hi |-> b[1], lo |-> b[2] * 65536 + b[3] * 256 + b[4]]

Min(a, b) == IF a < b THEN a ELSE b

\* s.starts_with(f) on byte strings.
StartsWith(s, f) == Len(s) >= Len(f) /\ SubSeq(s, 1, Len(f)) = f

IsCont(b) == b >= 128 /\ b <= 191

\* String::from_utf8: TRUE iff the bytes from index i on are well-formed UTF-8.
RECURSIVE ValidUtf8From(_, _)
ValidUtf8From(s, i) ==
  IF i > Len(s) THEN TRUE
  ELSE LET b == s[i]
           rem == Len(s) - i
       IN  IF b <= 127 THEN ValidUtf8From(s, i + 1)
           ELSE IF b >= 194 /\ b <= 223
             THEN rem >= 1 /\ IsCont(s[i + 1]) /\ ValidUtf8From(s, i + 2)
           ELSE IF b >= 224 /\ b <= 239
             THEN /\ rem >= 2
                  /\ IsCont(s[i + 1]) /\ IsCont(s[i + 2])
                  /\ (b = 224 => s[i + 1] >= 160)
                  /\ (b = 237 => s[i + 1] <= 159)
                  /\ ValidUtf8From(s, i + 3)
           ELSE IF b >= 240 /\ b <= 244
             THEN /\ rem >= 3
                  /\ IsCont(s[i + 1]) /\ IsCont(s[i + 2]) /\ IsCont(s[i + 3])
                  /\ (b = 240 => s[i + 1] >= 144)
                  /\ (b = 244 => s[i + 1] <= 143)
                  /\ ValidUtf8From(s, i + 4)
           ELSE FALSE

ValidUtf8(s) == ValidUtf8From(s, 1)

\* ------------------------------------------------------------------------
\* Errors and results (crate::Error: a kind and a description)
\* ------------------------------------------------------------------------
NoHead == << >>

Pending == [kind |-> "Pending", io |-> "", head |-> NoHead, msg |-> ""]

OkResult == [kind |-> "Ok", io |-> "", head |-> NoHead, msg |-> ""]

ErrIo(m) == [kind |-> "Io", io |-> "UnexpectedEof", head |-> NoHead, msg |-> m]

ErrAtomNotFound(h) ==
  [kind |-> "AtomNotFound", io |-> "", head |-> h,
   msg |-> "Reached EOF without finding a matching atom"]

ErrNoTag ==
  [kind |-> "NoTag", io |-> "", head |-> NoHead,
   msg |-> "File does not contain MPEG-4 audio metadata"]

ErrParsing(m) == [kind |-> "Parsing", io |-> "", head |-> NoHead, msg |-> m]

\* ------------------------------------------------------------------------
\* Data and Content values
\* ------------------------------------------------------------------------
NoData == [type |-> "None", code |-> Usize(0), ok |-> TRUE, bytes |-> << >>]

\* Data::empty_utf8()
EmptyUtf8 == [type |-> "Utf8", code |-> Usize(1), ok |-> TRUE, bytes |-> << >>]

\* Data::Unparsed
Unparsed == [type |-> "Unparsed", code |-> Usize(0), ok |-> TRUE, bytes |-> << >>]

ContentEmpty == [variant |-> "Empty", data |-> NoData, atoms |-> << >>]

ContentRawData(d) == [variant |-> "RawData", data |-> d, atoms |-> << >>]

ContentTypedData(d) == [variant |-> "TypedData", data |-> d, atoms |-> << >>]

\* Content::Atoms: the node numbers of the child templates, in list order.
ContentAtoms(l) == [variant |-> "Atoms", data |-> NoData, atoms |-> l]

\* Atom::with
AtomWith(h, o, c) == [head |-> h, offset |-> o, content |-> c]

\* Atom::with_raw_data
AtomWithRawData(h, o, d) == AtomWith(h, o, ContentRawData(d))

\* Atom::data_atom
DataAtom == AtomWith(DATA, 0, ContentTypedData(Unparsed))

\* ------------------------------------------------------------------------
\* Template trees as heaps
\* ------------------------------------------------------------------------
NumTags == Len(IlstHeads)

\* Node numbers of the canonical templates.
FtypNode == 1
MoovNode == 2
UdtaNode == 3
MetaNode == 4
IlstNode == 5
TagNode(i) == IlstNode + i
TagDataNode(i) == IlstNode + NumTags + i

\* Atom::filetype_atom
filetype_atom == AtomWithRawData(FILE_TYPE, 0, EmptyUtf8)

\* Atom::metadata_atom (nodes 2..) together with filetype_atom (node 1):
\* moov > udta > meta (offset 4) > ilst > <fourcc> > data.
metadata_atom ==
  [n \in 1..(IlstNode + 2 * NumTags) |->
     IF n = FtypNode THEN filetype_atom
     ELSE IF n = MoovNode THEN AtomWith(MOVIE, 0, ContentAtoms(<<UdtaNode>>))
     ELSE IF n = UdtaNode THEN AtomWith(USER_DATA, 0, ContentAtoms(<<MetaNode>>))
     ELSE IF n = MetaNode THEN AtomWith(METADATA, 4, ContentAtoms(<<IlstNode>>))
     ELSE IF n = IlstNode
       THEN AtomWith(ITEM_LIST, 0, ContentAtoms([i \in 1..NumTags |-> TagNode(i)]))
     ELSE IF n <= IlstNode + NumTags
       THEN AtomWith(IlstHeads[n - IlstNode], 0,
                     ContentAtoms(<<TagDataNode(n - IlstNode)>>))
     ELSE DataAtom]

\* ------------------------------------------------------------------------
\* The reader (io::Read over the byte sequence s, p bytes consumed so far)
\* ------------------------------------------------------------------------
\* reader.read_exact of n bytes: all n bytes, or UnexpectedEof with the
\* rest of the stream consumed.
read_exact(s, p, n) ==
  IF Leq(n, Usize(Len(s) - p))
    THEN [ok |-> TRUE, pos |-> p + n.lo, val |-> SubSeq(s, p + 1, p + n.lo)]
    ELSE [ok |-> FALSE, pos |-> Len(s), val |-> << >>]

\* Data::read_to_u8_vec: exactly `length` bytes or an Io error.
read_to_u8_vec(s, p, length) ==
  LET r == read_exact(s, p, length)
  IN  [ok |-> r.ok, pos |-> r.pos, val |-> r.val,
       err |-> IF r.ok THEN OkResult ELSE ErrIo("Error reading byte vector")]

\* Atom::parse_head: the 32 bit length, then the 4 byte head.
parse_head(s, p) ==
  LET l == read_exact(s, p, Usize(4))
      h == read_exact(s, l.pos, Usize(4))
  IN  IF ~l.ok
        THEN [ok |-> FALSE, pos |-> l.pos, length |-> Usize(0), head |-> NoHead,
              err |-> ErrIo("Error reading atom length")]
      ELSE IF ~h.ok
        THEN [ok |-> FALSE, pos |-> h.pos, length |-> Usize(0), head |-> NoHead,
              err |-> ErrIo("Error reading atom head")]
      ELSE [ok |-> TRUE, pos |-> h.pos, length |-> U32Of(l.val), head |-> h.val,
            err |-> OkResult]

\* ------------------------------------------------------------------------
\* Content::parse and Atom::parse_content
\* ------------------------------------------------------------------------
\* Data type codes of the `data` atom payload.
TypeName(code) ==
  CASE code = Usize(0) -> "Reserved"
    [] code = Usize(1) -> "Utf8"
    [] code = Usize(2) -> "Utf16"
    [] code = Usize(13) -> "Jpeg"
    [] code = Usize(14) -> "Png"
    [] OTHER -> "Unparsed"

\* Whether `bytes` decode as a value of the type.
Decodes(type, bytes) ==
  IF type = "Utf8" THEN ValidUtf8(bytes)
  ELSE IF type = "Utf16" THEN Len(bytes) % 2 = 0
  ELSE TRUE

\* The value decoded from `bytes` for a data type and its type code: the
\* bytes of a value that decodes (an unrecognized type code passes its
\* bytes through unparsed), none for one that does not.
Decode(type, code, bytes) ==
  [type |-> type, code |-> code, ok |-> Decodes(type, bytes),
   bytes |-> IF Decodes(type, bytes) THEN bytes ELSE << >>]

\* The outcome of parsing a content: "done" (finished with new content c at
\* position p), "call" (a parse_atoms call on the child list l with budget
\* n is to be made at position p) or "err" (failed with e at position p).
Done(c, p) ==
  [status |-> "done", content |-> c, pos |-> p, list |-> << >>,
   length |-> Usize(0), err |-> OkResult]

Call(c, p, l, n) ==
  [status |-> "call", content |-> c, pos |-> p, list |-> l, length |-> n,
   err |-> OkResult]

Fail(c, p, e) ==
  [status |-> "err", content |-> c, pos |-> p, list |-> << >>,
   length |-> Usize(0), err |-> e]

\* Content::parse(reader, length)
content_parse(c, s, p, length) ==
  CASE c.variant = "Atoms" -> Call(c, p, c.atoms, length)
    [] c.variant = "RawData" ->
         LET r == read_to_u8_vec(s, p, length)
         IN  IF r.ok THEN Done(ContentRawData(Decode(c.data.type, c.data.code, r.val)), r.pos)
             ELSE Fail(c, r.pos, r.err)
    [] c.variant = "TypedData" ->
         IF Leq(Usize(8), length)
           THEN LET t == read_exact(s, p, Usize(4))
                    l == read_exact(s, t.pos, Usize(4))
                    v == read_to_u8_vec(s, l.pos, Sub(length, 8))
                IN  IF ~t.ok THEN Fail(c, t.pos, ErrIo("Error reading typed data head"))
                    ELSE IF ~l.ok
                      THEN Fail(c, l.pos, ErrIo("Error reading typed data head"))
                    ELSE IF ~v.ok THEN Fail(c, v.pos, v.err)
                    ELSE Done(ContentTypedData(
                                Decode(TypeName(U32Of(t.val)), U32Of(t.val), v.val)),
                              v.pos)
           ELSE Fail(c, p, ErrParsing("Typed data head to short"))
    [] c.variant = "Empty" ->
         LET r == read_to_u8_vec(s, p, length)
         IN  IF r.ok THEN Done(c, r.pos) ELSE Fail(c, r.pos, r.err)

\* Atom::parse_content(reader, length) of the atom a
parse_content(a, s, p, length) ==
  IF Less(Usize(8), length)
    THEN LET o == IF a.offset # 0 THEN read_to_u8_vec(s, p, Usize(a.offset))
                  ELSE [ok |-> TRUE, pos |-> p, val |-> << >>, err |-> OkResult]
         IN  IF ~o.ok THEN Fail(a.content, o.pos, o.err)
             ELSE content_parse(a.content, s, o.pos, Sub(length, 8))
    ELSE Done(ContentEmpty, p)

\* A file type check that accepts every text that decoded.
is_valid_filetype_any(a) ==
  /\ a.content.variant = "RawData"
  /\ a.content.data.type = "Utf8"
  /\ a.content.data.ok

\* Atom::is_valid_filetype
is_valid_filetype(a) ==
  /\ a.content.variant = "RawData"
  /\ a.content.data.type = "Utf8"
  /\ a.content.data.ok
  /\ \E i \in 1..Len(VALID_FILE_TYPES) :
       StartsWith(a.content.data.bytes, VALID_FILE_TYPES[i])

\* ------------------------------------------------------------------------
\* State
\* ------------------------------------------------------------------------
VARIABLES
  input,    \* the description the byte stream and the call were built from
  stream,   \* the bytes behind the reader
  pos,      \* number of bytes the reader has consumed
  atoms,    \* the template tree(s): node number -> Atom
  stack,    \* call stack, innermost call last
  ret,      \* "ok" while a finished call's Ok(()) awaits its caller
  result,   \* the Result of the outermost call (Pending while it runs)
  output    \* the bytes written by the writer

vars == <<input, stream, pos, atoms, stack, ret, result, output>>

\* Stack frames.  parse: `node` is self.  parse_atoms: `list` is the atoms
\* argument, `length` the budget, parsed_bytes / parsed_atoms the counters,
\* and, while the content of a matched child is parsed (pc = "called"),
\* `node` the child and atom_length its declared length.  `start` records
\* the reader position at which the call began.
Frame(fn, pc, node, list, length, start) ==
  [fn |-> fn, pc |-> pc, node |-> node, list |-> list, length |-> length,
   parsed_bytes |-> Usize(0), parsed_atoms |-> 0, atom_length |-> Usize(0),
   start |-> start]

ReadFromFrame == Frame("read_from", "start", 0, << >>, Usize(0), 0)

ParseFrame(node, p) == Frame("parse", "loop", node, << >>, Usize(0), p)

AtomsFrame(list, length, p) == Frame("parse_atoms", "loop", 0, list, length, p)

Running == stack # << >>

Top == stack[Len(stack)]

Rest == SubSeq(stack, 1, Len(stack) - 1)

SetTop(f) == [stack EXCEPT ![Len(stack)] = f]

\* An Err(e) leaves every caller through `?`: the outermost call fails.
Unwind(e, p) ==
  /\ pos' = p
  /\ stack' = << >>
  /\ ret' = "none"
  /\ result' = e
  /\ UNCHANGED <<output, input, stream, atoms>>

\* The innermost call returns Ok(()).
Returning ==
  /\ stack' = Rest
  /\ IF Rest = << >>
       THEN result' = OkResult /\ ret' = "none"
       ELSE result' = result /\ ret' = "ok"

\* A parse that hands the error of parse_head to its caller as it is.
head_error_passthrough(e, h) == e

\* Atom::parse, lines 125-136: an UnexpectedEof while reading a head is
\* reported as AtomNotFound(self.head), any other error unchanged.
head_error(e, h) ==
  IF e.kind = "Io"
    THEN IF e.io = "UnexpectedEof" THEN ErrAtomNotFound(h) ELSE e
    ELSE e

\* A skip that forgets that the 8 bytes of the head are already read.
skip_body_whole(s, p, length) ==
  IF Less(Usize(8), length)
    THEN read_to_u8_vec(s, p, length)
    ELSE [ok |-> TRUE, pos |-> p, val |-> << >>, err |-> OkResult]

\* A skip that seeks to the declared end of the atom from its start.
skip_body_seek(s, p, length) ==
  IF Leq(length, Usize(Len(s) - (p - HeadLen)))
    THEN [ok |-> TRUE, pos |-> p - HeadLen + length.lo, val |-> << >>, err |-> OkResult]
    ELSE [ok |-> FALSE, pos |-> Len(s), val |-> << >>,
          err |-> ErrIo("Error reading byte vector")]

\* The skip of an atom that was not parsed (parse lines 142-144,
\* parse_atoms lines 169-171).
skip_body(s, p, length) ==
  IF Less(Usize(8), length)
    THEN read_to_u8_vec(s, p, Sub(length, 8))
    ELSE [ok |-> TRUE, pos |-> p, val |-> << >>, err |-> OkResult]

\* A search that lets the last template with the head win.
find_template_last(heap, list, h) ==
  LET m == {i \in 1..Len(list) : heap[list[i]].head = h}
  IN  IF m = {} THEN 0 ELSE CHOOSE i \in m : \A j \in m : i >= j

\* A search that hands every atom to the first template of the list.
find_template_always_first(heap, list, h) == IF list = << >> THEN 0 ELSE 1

\* parse_atoms lines 159-167: index of the first template of `list` whose
\* head equals h, 0 if there is none.
find_template(heap, list, h) ==
  LET m == {i \in 1..Len(list) : heap[list[i]].head = h}
  IN  IF m = {} THEN 0 ELSE CHOOSE i \in m : \A j \in m : i <= j

\* A loop condition that stops one match early.
atoms_continue_one_short(f) ==
  Less(f.parsed_bytes, f.length) /\ f.parsed_atoms + 1 < Len(f.list)

\* A loop condition without the count of matched templates.
atoms_continue_bytes_only(f) == Less(f.parsed_bytes, f.length)

\* parse_atoms line 154: the loop condition.
atoms_continue(f) ==
  Less(f.parsed_bytes, f.length) /\ f.parsed_atoms < Len(f.list)

\* ------------------------------------------------------------------------
\* Atom::parse
\* ------------------------------------------------------------------------
\* One iteration of the loop of Atom::parse.
ParseStep ==
  /\ Running /\ Top.fn = "parse" /\ Top.pc = "loop" /\ ret = "none"
  /\ LET a == atoms[Top.node]
         h == parse_head(stream, pos)
     IN  IF ~h.ok THEN Unwind(head_error(h.err, a.head), h.pos)
         ELSE IF h.head = a.head
           THEN LET r == parse_content(a, stream, h.pos, h.length)
                IN  CASE r.status = "err" -> Unwind(r.err, r.pos)
                      [] r.status = "done" ->
                           /\ pos' = r.pos
                           /\ atoms' = [atoms EXCEPT ![Top.node].content = r.content]
                           /\ Returning
                           /\ UNCHANGED <<output, input, stream>>
                      [] r.status = "call" ->
                           /\ pos' = r.pos
                           /\ stack' = SetTop([Top EXCEPT !.pc = "called"])
                                         \o <<AtomsFrame(r.list, r.length, r.pos)>>
                           /\ UNCHANGED <<output, input, stream, atoms, ret, result>>
           ELSE LET k == skip_body(stream, h.pos, h.length)
                IN  IF ~k.ok THEN Unwind(k.err, k.pos)
                    ELSE /\ pos' = k.pos
                         /\ UNCHANGED <<output, input, stream, atoms, stack, ret, result>>

\* `return self.parse_content(reader, length)` once the content is parsed.
ParseReturn ==
  /\ Running /\ Top.fn = "parse" /\ Top.pc = "called" /\ ret = "ok"
  /\ Returning
  /\ UNCHANGED <<output, input, stream, pos, atoms>>

\* ------------------------------------------------------------------------
\* Atom::parse_atoms
\* ------------------------------------------------------------------------
\* One iteration of the while loop of Atom::parse_atoms.
AtomsStep ==
  /\ Running /\ Top.fn = "parse_atoms" /\ Top.pc = "loop" /\ ret = "none"
  /\ atoms_continue(Top)
  /\ LET h == parse_head(stream, pos)
         i == find_template(atoms, Top.list, h.head)
     IN  IF ~h.ok THEN Unwind(h.err, h.pos)
         ELSE IF i # 0
           THEN LET n == Top.list[i]
                    r == parse_content(atoms[n], stream, h.pos, h.length)
                IN  CASE r.status = "err" -> Unwind(r.err, r.pos)
                      [] r.status = "done" ->
                           /\ pos' = r.pos
                           /\ atoms' = [atoms EXCEPT ![n].content = r.content]
                           /\ stack' = SetTop([Top EXCEPT
                                  !.parsed_atoms = @ + 1,
                                  !.parsed_bytes = Add(@, h.length)])
                           /\ UNCHANGED <<output, input, stream, ret, result>>
                      [] r.status = "call" ->
                           /\ pos' = r.pos
                           /\ stack' = SetTop([Top EXCEPT
                                  !.pc = "called", !.node = n,
                                  !.atom_length = h.length])
                                \o <<AtomsFrame(r.list, r.length, r.pos)>>
                           /\ UNCHANGED <<output, input, stream, atoms, ret, result>>
           ELSE LET k == skip_body(stream, h.pos, h.length)
                IN  IF ~k.ok THEN Unwind(k.err, k.pos)
                    ELSE /\ pos' = k.pos
                         /\ stack' = SetTop([Top EXCEPT
                                !.parsed_bytes = Add(@, h.length)])
                         /\ UNCHANGED <<output, input, stream, atoms, ret, result>>

\* The matched child's content is parsed: lines 162-164 and 173.
AtomsResume ==
  /\ Running /\ Top.fn = "parse_atoms" /\ Top.pc = "called" /\ ret = "ok"
  /\ stack' = SetTop([Top EXCEPT !.pc = "loop",
                                 !.parsed_atoms = @ + 1,
                                 !.parsed_bytes = Add(@, Top.atom_length)])
  /\ ret' = "none"
  /\ UNCHANGED <<output, input, stream, pos, atoms, result>>

\* The loop condition fails: Ok(()).
AtomsReturn ==
  /\ Running /\ Top.fn = "parse_atoms" /\ Top.pc = "loop" /\ ret = "none"
  /\ ~atoms_continue(Top)
  /\ Returning
  /\ UNCHANGED <<output, input, stream, pos, atoms>>

\* ------------------------------------------------------------------------
\* Atom::read_from
\* ------------------------------------------------------------------------
\* ftyp.parse(reader)
ReadFromStart ==
  /\ Running /\ Top.fn = "read_from" /\ Top.pc = "start"
  /\ stack' = SetTop([Top EXCEPT !.pc = "ftyp"]) \o <<ParseFrame(FtypNode, pos)>>
  /\ UNCHANGED <<output, input, stream, pos, atoms, ret, result>>

\* The file type check, then moov.parse(reader).
ReadFromCheck ==
  /\ Running /\ Top.fn = "read_from" /\ Top.pc = "ftyp" /\ ret = "ok"
  /\ IF ~is_valid_filetype(atoms[FtypNode])
       THEN Unwind(ErrNoTag, pos)
       ELSE /\ stack' = SetTop([Top EXCEPT !.pc = "moov"])
                          \o <<ParseFrame(MoovNode, pos)>>
            /\ ret' = "none"
            /\ UNCHANGED <<output, input, stream, pos, atoms, result>>

\* Ok(Tag::with(moov))
ReadFromFinish ==
  /\ Running /\ Top.fn = "read_from" /\ Top.pc = "moov" /\ ret = "ok"
  /\ stack' = << >>
  /\ ret' = "none"
  /\ result' = OkResult
  /\ UNCHANGED <<output, input, stream, pos, atoms>>

\* ------------------------------------------------------------------------
\* Byte streams (the stream framing: u32 total length, 4 byte head, body)
\* ------------------------------------------------------------------------
\* An atom whose declared length is `declared`, whatever its body holds.
BoxL(declared, head, body) == U32(declared) \o head \o body

\* A well-framed atom: the declared length is 8 + the length of the body.
Box(head, body) == BoxL(HeadLen + Len(body), head, body)

\* A metadata atom holding one `data` atom: type code 1 (UTF-8), locale 0.
Tag(head, text) == Box(head, Box(DATA, U32(1) \o U32(0) \o text))

RECURSIVE Flatten(_)
Flatten(ss) == IF ss = << >> THEN << >> ELSE Head(ss) \o Flatten(Tail(ss))

SeqsUpTo(S, n) == UNION {[1..k -> S] : k \in 0..n}

\* Bounds of the read_from inputs.
MaxIlstChildren == 2

\* The children of `ilst` tried: two known tags and an unknown atom.
IlstKinds == {ALBUM, TITLE, FREE}

\* The i-th child of a container: a tag with a one byte text that names
\* its position, or an unknown atom with a 4 byte body.
ChildBytes(head, i) ==
  IF head = FREE THEN Box(FREE, <<0, 0, 0, i>>) ELSE Tag(head, <<64 + i>>)

IlstBox(kinds) ==
  Box(ITEM_LIST, Flatten([i \in 1..Len(kinds) |-> ChildBytes(kinds[i], i)]))

HdlrBox == Box(<<104, 100, 108, 114>>, <<0, 0, 0, 0>>)

MoovBox(metaBody) == Box(MOVIE, Box(USER_DATA, Box(METADATA, <<0, 0, 0, 0>> \o metaBody)))

\* What follows the `ftyp` atom: nothing, atoms without a `moov`, a `moov`
\* down to some depth, an atom declared longer than the stream, or a `moov`
\* whose `meta` is declared shorter than its 4 byte version/flags field.
TailKinds ==
  {"eof", "partial", "free", "moov_empty", "moov_noudta", "moov_noilst",
   "moov", "free_moov", "moov_hdlr", "free_over", "meta_short"}

TailBytes(kind, kinds) ==
  CASE kind = "eof" -> << >>
    [] kind = "partial" -> <<0, 0, 0>>
    [] kind = "free" -> Box(FREE, <<0>>)
    [] kind = "moov_empty" -> Box(MOVIE, << >>)
    [] kind = "moov_noudta" -> Box(MOVIE, Box(FREE, << >>))
    [] kind = "moov_noilst" -> MoovBox(HdlrBox)
    [] kind = "moov" -> MoovBox(IlstBox(kinds))
    [] kind = "free_moov" -> Box(FREE, <<0>>) \o MoovBox(IlstBox(kinds))
    [] kind = "moov_hdlr" -> MoovBox(HdlrBox \o IlstBox(kinds))
    [] kind = "free_over" -> BoxL(20, FREE, <<0>>)
    [] kind = "meta_short" ->
         Box(MOVIE, Box(USER_DATA, BoxL(10, METADATA, <<0, 0>>) \o Box(FREE, <<0, 0, 0, 0>>)))

Tails ==
  {[kind |-> k, kinds |-> ks] : k \in TailKinds, ks \in SeqsUpTo(IlstKinds, MaxIlstChildren)}

\* The texts of the `ftyp` atom tried: "M4A ", "M4B ", "isom", "M4A isom",
\* " M4A", "M4A", none, and bytes that are not UTF-8.
FtypTexts ==
  { <<77, 52, 65, 32>>, <<77, 52, 66, 32>>, <<105, 115, 111, 109>>,
    <<77, 52, 65, 32, 105, 115, 111, 109>>, <<32, 77, 52, 65>>, <<77, 52, 65>>,
    << >>, <<77, 52, 65, 32, 255>> }

\* The framing of the `ftyp` atom: well-framed, declared shorter than a
\* head, or declared 4 bytes longer than its body.
Shapes == {"ok", "short", "over"}

ShapedBox(shape, head, body) ==
  CASE shape = "ok" -> Box(head, body)
    [] shape = "short" -> BoxL(4, head, << >>)
    [] shape = "over" -> BoxL(HeadLen + Len(body) + 4, head, body)

\* What precedes the `ftyp` atom: nothing, an unrelated atom, or an
\* unrelated atom of declared length 0 or 4.
Pres == { << >>, Box(FREE, <<0, 0>>), BoxL(0, FREE, << >>), BoxL(4, FREE, << >>) }

ReadFromInputs ==
  {[entry |-> "read_from", pre |-> p, text |-> t, shape |-> sh, tail |-> tl] :
     p \in Pres, t \in FtypTexts, sh \in Shapes, tl \in Tails}

\* Inputs that differ only in a part that does not reach the stream are
\* the same input.
Canonical(i) ==
  /\ i.shape = "short" => i.text = << >>
  /\ i.tail.kind \notin {"moov", "free_moov", "moov_hdlr"} => i.tail.kinds = << >>

ReadFromStream(i) ==
  i.pre \o ShapedBox(i.shape, FILE_TYPE, i.text) \o TailBytes(i.tail.kind, i.tail.kinds)

\* ------------------------------------------------------------------------
\* Specification: Atom::read_from on a byte stream
\* ------------------------------------------------------------------------
Init ==
  /\ input \in {i \in ReadFromInputs : Canonical(i)}
  /\ stream = ReadFromStream(input)
  /\ pos = 0
  /\ atoms = metadata_atom
  /\ stack = <<ReadFromFrame>>
  /\ ret = "none"
  /\ result = Pending
  /\ output = << >>

Next ==
  \/ ReadFromStart
  \/ ParseStep
  \/ ParseReturn
  \/ AtomsStep
  \/ AtomsResume
  \/ AtomsReturn
  \/ ReadFromCheck
  \/ ReadFromFinish

Spec == Init /\ [][Next]_vars

TypeOK ==
  /\ pos \in 0..Len(stream)
  /\ ret \in {"none", "ok"}
  /\ result.kind \in {"Pending", "Ok", "NoTag", "AtomNotFound", "Io", "Parsing"}
  /\ Running <=> result = Pending

\* ------------------------------------------------------------------------
\* Specification: Atom::parse_atoms called on a list of templates
\* ------------------------------------------------------------------------
\* Bound of the sibling sequences.
MaxSiblings == 3

\* Hand-built template lists: two tag templates (nodes 1 and 2), each with a
\* `data` child (nodes 3 and 4), with distinct or with colliding heads.
TemplateLists == {"distinct", "collide"}

ListHeads(tl) ==
  IF tl = "distinct" THEN <<ALBUM, ALBUM_ARTIST>> ELSE <<ALBUM, ALBUM>>

ListHeap(tl) ==
  [n \in 1..4 |->
     IF n <= 2 THEN AtomWith(ListHeads(tl)[n], 0, ContentAtoms(<<n + 2>>))
     ELSE DataAtom]

\* The siblings tried: tags of the two heads and an unknown atom, each
\* well-framed, declared shorter than a head or declared too long; a tag
\* also well-framed around a `data` atom too short for its type code and
\* locale.
SiblingHeads == {ALBUM, ALBUM_ARTIST, FREE}

Siblings ==
  {[head |-> h, shape |-> sh] : h \in SiblingHeads, sh \in Shapes}
    \cup {[head |-> h, shape |-> "bad_data"] : h \in SiblingHeads \ {FREE}}

\* The text of the tag at position i of the stream.
TextAt(i) == <<64 + i>>

SiblingBytes(sib, i) ==
  IF sib.head = FREE THEN ShapedBox(sib.shape, FREE, <<0, 0, 0, i>>)
  ELSE IF sib.shape = "bad_data" THEN Box(sib.head, Box(DATA, U32(1)))
  ELSE ShapedBox(sib.shape, sib.head, Box(DATA, U32(1) \o U32(0) \o TextAt(i)))

SiblingsBytes(sibs) == Flatten([i \in 1..Len(sibs) |-> SiblingBytes(sibs[i], i)])

DeclaredLen(sib, i) == U32Of(SiblingBytes(sib, i)).lo

RECURSIVE SumDeclared(_, _)
SumDeclared(sibs, n) ==
  IF n = 0 THEN 0 ELSE SumDeclared(sibs, n - 1) + DeclaredLen(sibs[n], n)

\* What follows the parent in the stream: two more (empty) atoms.
Trailer == Box(FREE, << >>) \o Box(FREE, << >>)

\* The budget passed: the sum of the declared lengths of the siblings, or
\* the number of bytes they occupy.
Budget(i) ==
  IF i.budget = "declared" THEN SumDeclared(i.sibs, Len(i.sibs))
  ELSE Len(SiblingsBytes(i.sibs))

AtomsInputs ==
  {[entry |-> "parse_atoms", tl |-> tl, sibs |-> ss, budget |-> b] :
     tl \in TemplateLists, ss \in SeqsUpTo(Siblings, MaxSiblings) \ {<< >>},
     b \in {"declared", "actual"}}

CanonicalAtoms(i) ==
  i.budget = "actual" => Len(SiblingsBytes(i.sibs)) # SumDeclared(i.sibs, Len(i.sibs))

InitAtoms ==
  /\ input \in {i \in AtomsInputs : CanonicalAtoms(i)}
  /\ stream = SiblingsBytes(input.sibs) \o Trailer
  /\ pos = 0
  /\ atoms = ListHeap(input.tl)
  /\ stack = <<AtomsFrame(<<1, 2>>, Usize(Budget(input)), 0)>>
  /\ ret = "none"
  /\ result = Pending
  /\ output = << >>

NextAtoms ==
  \/ AtomsStep
  \/ AtomsResume
  \/ AtomsReturn

SpecAtoms == InitAtoms /\ [][NextAtoms]_vars

\* ------------------------------------------------------------------------
\* Properties of Atom::read_from and Atom::parse (specification Spec)
\* ------------------------------------------------------------------------
M4A == <<77, 52, 65, 32>>
M4B == <<77, 52, 66, 32>>
Isom == <<105, 115, 111, 109>>

\* The `ftyp` template has received the content of an `ftyp` atom.
FtypParsed == atoms[FtypNode].content # filetype_atom.content

\* The text of the parsed `ftyp` content starts with an accepted code.
FtypAccepted ==
  LET c == atoms[FtypNode].content
  IN  /\ c.variant = "RawData" /\ c.data.type = "Utf8" /\ c.data.ok
      /\ Len(c.data.bytes) >= 4
      /\ SubSeq(c.data.bytes, 1, 4) \in {M4A, M4B}

\* No node of the metadata template differs from the template as built.
MoovUntouched == \A n \in DOMAIN atoms \ {FtypNode} : atoms[n] = metadata_atom[n]

\* C1: when an `ftyp` atom was found and its text does not start with
\* "M4A " or "M4B " (also when it has no body or is not text), read_from
\* ends with NoTag: no Tag is produced, and the `moov` template is not
\* parsed, before or after.
C1_NoTagOnWrongFileType ==
  (FtypParsed /\ ~FtypAccepted) =>
     /\ result \in {Pending, ErrNoTag}
     /\ Running => (Len(stack) = 1 /\ Top.fn = "read_from" /\ Top.pc = "ftyp")
     /\ MoovUntouched

\* read_from has answered NoTag for an `ftyp` of text "isom" that a
\* complete `moov` follows.
C1_Witness ==
  /\ result = ErrNoTag
  /\ atoms[FtypNode].content.data.bytes = Isom
  /\ input.tail = [kind |-> "moov", kinds |-> <<ALBUM, TITLE>>]

\* Atom::parse is about to read a head and fewer than 8 bytes are left.
EofAtHead ==
  /\ Running /\ Top.fn = "parse" /\ Top.pc = "loop" /\ ret = "none"
  /\ Len(stream) - pos < HeadLen

\* The stream holds a well-framed `ftyp` with an accepted text, then ends.
ValidFtypThenEof ==
  /\ input.shape = "ok" /\ input.tail.kind = "eof"
  /\ Len(input.text) >= 4 /\ SubSeq(input.text, 1, 4) \in {M4A, M4B}
  /\ ValidUtf8(input.text)

\* C2: when the stream ends while Atom::parse reads a head, parse fails with
\* AtomNotFound of the template's own head, not with an I/O error; read_from
\* on a valid `ftyp` followed by the end of the stream fails with
\* AtomNotFound(moov).
C2_EofIsAtomNotFound ==
  [][ /\ EofAtHead => result' = ErrAtomNotFound(atoms[Top.node].head)
      /\ (ValidFtypThenEof /\ result' # Pending) => result' = ErrAtomNotFound(MOVIE)
    ]_vars

\* read_from has failed with AtomNotFound(moov) after a valid `ftyp`.
C2_Witness ==
  /\ ValidFtypThenEof
  /\ FtypAccepted
  /\ result = ErrAtomNotFound(MOVIE)

\* The head at the reader's position.
LengthAt(p) == U32Of(SubSeq(stream, p + 1, p + 4))
HeadAt(p) == SubSeq(stream, p + 5, p + 8)

\* The next step reads the head of an atom that matches no wanted template.
SkipCase ==
  /\ Running /\ Top.pc = "loop" /\ ret = "none"
  /\ Len(stream) - pos >= HeadLen
  /\ \/ Top.fn = "parse" /\ HeadAt(pos) # atoms[Top.node].head
     \/ /\ Top.fn = "parse_atoms"
        /\ Less(Top.parsed_bytes, Top.length) /\ Top.parsed_atoms < Len(Top.list)
        /\ \A i \in 1..Len(Top.list) : HeadAt(pos) # atoms[Top.list[i]].head

\* C3 as stated: an atom of declared length L that matches no wanted
\* template has exactly L - 8 body bytes consumed, so that the next head is
\* read at its declared end, and no template changes.
C3_SkipExactAnyLength ==
  [][ (SkipCase /\ result' = Pending) =>
        /\ LengthAt(pos).hi = 0
        /\ pos' = pos + LengthAt(pos).lo
        /\ atoms' = atoms ]_vars

\* C3, amended: for a declared length L >= 8 exactly L - 8 body bytes are
\* consumed and the next head is read at the declared end; for L < 8 no
\* body byte is consumed and the next head is read 8 bytes after the start
\* of the atom; no template changes.
C3_SkipExact ==
  [][ (SkipCase /\ result' = Pending) =>
        /\ LengthAt(pos).hi = 0
        /\ pos' = pos + (IF LengthAt(pos).lo >= HeadLen THEN LengthAt(pos).lo ELSE HeadLen)
        /\ atoms' = atoms ]_vars

\* Atom::parse has skipped the 9 byte atom between `ftyp` and `moov` and
\* stands at the head of `moov`.
C3_Witness ==
  /\ input.tail.kind = "free_moov" /\ input.shape = "ok" /\ input.text = M4A
  /\ Running /\ Top.fn = "parse" /\ Top.node = MoovNode /\ Top.pc = "loop"
  /\ pos = Len(input.pre) + 12 + 9
  /\ HeadAt(pos) = MOVIE

\* ------------------------------------------------------------------------
\* Properties of Atom::parse_atoms (specification SpecAtoms)
\* ------------------------------------------------------------------------
\* C4: parse_atoms called with budget B never consumes more than B bytes
\* from the reader: every running call of parse_atoms has read at most its
\* budget since it began, and the outermost call at most the budget passed.
C4_WithinBudget ==
  /\ \A k \in 1..Len(stack) :
       stack[k].fn = "parse_atoms" =>
         Leq(Usize(pos - stack[k].start), stack[k].length)
  /\ pos <= Budget(input)

\* Every sibling of the input is well-framed.
WellFramed(sibs) == \A k \in 1..Len(sibs) : sibs[k].shape = "ok"

\* The positions in the stream of the atoms with head h.
Positions(sibs, h) == {k \in 1..Len(sibs) : sibs[k].head = h}

\* No fourcc that has a template occurs twice.
NoDuplicates(sibs) ==
  \A h \in SiblingHeads \ {FREE} : Cardinality(Positions(sibs, h)) <= 1

\* The template t of the list holds the text of the tag at position k.
HoldsTag(t, k) ==
  /\ atoms[t] = ListHeap(input.tl)[t]
  /\ atoms[t + 2].head = DATA /\ atoms[t + 2].offset = 0
  /\ atoms[t + 2].content =
       ContentTypedData([type |-> "Utf8", code |-> Usize(1), ok |-> TRUE,
                         bytes |-> TextAt(k)])

\* The template t of the list and its child are as built.
AsBuilt(t) ==
  /\ atoms[t] = ListHeap(input.tl)[t]
  /\ atoms[t + 2] = ListHeap(input.tl)[t + 2]

\* C5: when the well-framed children of a container include atoms without
\* a template among atoms that have one, parse_atoms returns Ok, every
\* known atom present is parsed into its own template with its value, and
\* the unknown atoms raise no error and change no template.
C5_UnknownTolerance ==
  (input.tl = "distinct" /\ WellFramed(input.sibs) /\ NoDuplicates(input.sibs)) =>
     /\ result \in {Pending, OkResult}
     /\ ~Running =>
          \A t \in 1..2 :
            LET ks == Positions(input.sibs, ListHeads(input.tl)[t])
            IN  IF ks = {} THEN AsBuilt(t)
                ELSE \A k \in ks : HoldsTag(t, k)

\* parse_atoms has returned Ok for an unknown atom between two known ones,
\* with both values in their templates.
C5_Witness ==
  /\ input.tl = "distinct"
  /\ input.sibs = << [head |-> ALBUM_ARTIST, shape |-> "ok"],
                     [head |-> FREE, shape |-> "ok"],
                     [head |-> ALBUM, shape |-> "ok"] >>
  /\ result = OkResult
  /\ HoldsTag(1, 3) /\ HoldsTag(2, 1)

\* The siblings are well-framed and hold each wanted head exactly once.
EachWantedOnce ==
  /\ input.tl = "distinct" /\ WellFramed(input.sibs)
  /\ \A t \in 1..2 : Cardinality(Positions(input.sibs, ListHeads(input.tl)[t])) = 1

AllMatched ==
  \A t \in 1..2 :
    \A k \in Positions(input.sibs, ListHeads(input.tl)[t]) : HoldsTag(t, k)

\* The position of the last sibling that has a template.
LastWanted(sibs) ==
  CHOOSE k \in 1..Len(sibs) :
    /\ sibs[k].head # FREE
    /\ \A j \in (k + 1)..Len(sibs) : sibs[j].head = FREE

\* C6 as stated: given N templates with distinct heads, siblings holding
\* each of them once with K unrelated atoms anywhere among them, and the
\* sum of all declared lengths as budget, parse_atoms matches all N
\* templates and consumes exactly that sum.
C6_ConsumesWholeBudget ==
  (EachWantedOnce /\ ~Running) =>
     /\ result = OkResult
     /\ AllMatched
     /\ pos = Budget(input)

\* C6, amended: parse_atoms matches all N templates and consumes exactly
\* the declared lengths of the siblings up to and including the last
\* wanted one, never more than the budget: unrelated atoms after the last
\* wanted one are left unread.
C6_ConsumesUpToLastWanted ==
  (EachWantedOnce /\ ~Running) =>
     /\ result = OkResult
     /\ AllMatched
     /\ pos = SumDeclared(input.sibs, LastWanted(input.sibs))
     /\ pos <= Budget(input)

\* parse_atoms has matched both templates and returned with the unrelated
\* atom that follows them unread.
C6_Witness ==
  /\ input.tl = "distinct"
  /\ input.sibs = << [head |-> ALBUM, shape |-> "ok"],
                     [head |-> ALBUM_ARTIST, shape |-> "ok"],
                     [head |-> FREE, shape |-> "ok"] >>
  /\ result = OkResult
  /\ AllMatched
  /\ pos = 50 /\ Budget(input) = 62

\* The first position of the head of the colliding templates, 0 if none.
FirstAlbum(sibs) ==
  IF Positions(sibs, ALBUM) = {} THEN 0
  ELSE CHOOSE k \in Positions(sibs, ALBUM) : \A j \in Positions(sibs, ALBUM) : k <= j

\* The first occurrence of the colliding head is reached in step with the
\* stream and has a body.
FirstAlbumReached(sibs) ==
  /\ FirstAlbum(sibs) # 0
  /\ \A j \in 1..(FirstAlbum(sibs) - 1) : sibs[j].shape # "over"
  /\ sibs[FirstAlbum(sibs)].shape # "short"

\* C7: of two templates with the same head, the one earlier in the list
\* receives the first occurrence of that fourcc in the stream, and the
\* later one is left untouched: a call of parse_atoms parses a child only
\* into the first template of its list with the child's head, the second
\* of the colliding templates stays as built, and once the first occurrence
\* is handled the first template holds its value.
C7_FirstTemplateWins ==
  /\ \A k \in 1..Len(stack) :
       (stack[k].fn = "parse_atoms" /\ stack[k].pc = "called") =>
         \E i \in 1..Len(stack[k].list) :
           /\ stack[k].list[i] = stack[k].node
           /\ \A j \in 1..(i - 1) :
                atoms[stack[k].list[j]].head # atoms[stack[k].node].head
  /\ input.tl = "collide" =>
       /\ AsBuilt(2)
       /\ (/\ FirstAlbumReached(input.sibs)
           /\ Running /\ stack[1].pc = "loop" /\ stack[1].parsed_atoms = 1)
            => HoldsTag(1, FirstAlbum(input.sibs))

\* The first of two colliding templates holds the value of the first
\* occurrence, which an unknown atom precedes; the second is as built.
C7_Witness ==
  /\ input.tl = "collide"
  /\ input.sibs = << [head |-> FREE, shape |-> "ok"],
                     [head |-> ALBUM, shape |-> "ok"],
                     [head |-> ALBUM, shape |-> "ok"] >>
  /\ Running /\ stack[1].pc = "loop" /\ stack[1].parsed_atoms = 1
  /\ HoldsTag(1, 2) /\ AsBuilt(2)

\* ------------------------------------------------------------------------
\* Identifiers (src/atom/ident.rs)
\* ------------------------------------------------------------------------
\* A string is the sequence of its chars (code points); str::as_bytes
\* gives its UTF-8 encoding.
Utf8Char(c) ==
  IF c < 128 THEN <<c>>
  ELSE IF c < 2048 THEN <<192 + (c \div 64), 128 + (c % 64)>>
  ELSE <<224 + (c \div 4096), 128 + ((c \div 64) % 64), 128 + (c % 64)>>

as_bytes(s) == Flatten([i \in 1..Len(s) |-> Utf8Char(s[i])])

\* (`----`) and (`name`) of ident.rs, and the mean of most freeform
\* identifiers ("com.apple.iTunes").
FREEFORM == <<45, 45, 45, 45>>
NAME == <<110, 97, 109, 101>>
APPLE_ITUNES_MEAN == <<99, 111, 109, 46, 97, 112, 112, 108, 101, 46, 105, 84, 117, 110, 101, 115>>

\* The values that implement Ident: Fourcc, FreeformIdent and the two
\* variants of DataIdent.
FourccOf(bytes) ==
  [impl |-> "Fourcc", bytes |-> bytes, mean |-> << >>, name |-> << >>]

FreeformIdentNew(mean, name) ==
  [impl |-> "FreeformIdent", bytes |-> << >>, mean |-> mean, name |-> name]

DataIdentFourcc(bytes) ==
  [impl |-> "DataIdent::Fourcc", bytes |-> bytes, mean |-> << >>, name |-> << >>]

DataIdentFreeform(mean, name) ==
  [impl |-> "DataIdent::Freeform", bytes |-> << >>, mean |-> mean, name |-> name]

IsDataIdent(x) == x.impl \in {"DataIdent::Fourcc", "DataIdent::Freeform"}

\* Option values and their derived equality.
None == [some |-> FALSE, val |-> << >>]
Some(v) == [some |-> TRUE, val |-> v]
option_eq(a, b) == a.some = b.some /\ (a.some => a.val = b.val)

\* Ident::fourcc of the three implementations.
ident_fourcc(x) ==
  CASE x.impl = "Fourcc" -> Some(x.bytes)
    [] x.impl = "FreeformIdent" -> None
    [] x.impl = "DataIdent::Fourcc" -> Some(x.bytes)
    [] x.impl = "DataIdent::Freeform" -> None

\* Ident::freeform of the three implementations.
ident_freeform(x) ==
  CASE x.impl = "Fourcc" -> None
    [] x.impl = "FreeformIdent" -> Some(<<x.mean, x.name>>)
    [] x.impl = "DataIdent::Fourcc" -> None
    [] x.impl = "DataIdent::Freeform" -> Some(<<x.mean, x.name>>)

\* idents_match
idents_match(a, b) ==
  /\ option_eq(ident_fourcc(a), ident_fourcc(b))
  /\ option_eq(ident_freeform(a), ident_freeform(b))

\* impl PartialEq<DataIdent> for Fourcc
fourcc_eq(self, other) ==
  CASE other.impl = "DataIdent::Fourcc" -> self.bytes = other.bytes
    [] other.impl = "DataIdent::Freeform" -> FALSE

\* A comparison of freeform identifiers that looks at the name only.
freeform_eq_name_only(self, other) ==
  CASE other.impl = "DataIdent::Fourcc" -> FALSE
    [] other.impl = "DataIdent::Freeform" -> self.name = other.name

\* impl PartialEq<DataIdent> for FreeformIdent
freeform_eq(self, other) ==
  CASE other.impl = "DataIdent::Fourcc" -> FALSE
    [] other.impl = "DataIdent::Freeform" ->
         self.mean = other.mean /\ self.name = other.name

\* The derived PartialEq of DataIdent.
data_ident_eq(self, other) ==
  CASE self.impl = "DataIdent::Fourcc" /\ other.impl = "DataIdent::Fourcc" ->
         self.bytes = other.bytes
    [] self.impl = "DataIdent::Freeform" /\ other.impl = "DataIdent::Freeform" ->
         self.mean = other.mean /\ self.name = other.name
    [] OTHER -> FALSE

\* `self == other` for an identifier and a DataIdent.
ident_eq(self, other) ==
  CASE self.impl = "Fourcc" -> fourcc_eq(self, other)
    [] self.impl = "FreeformIdent" -> freeform_eq(self, other)
    [] OTHER -> data_ident_eq(self, other)

\* A conversion that counts the chars of the string.
from_str_chars(s) ==
  IF Len(s) = 4
    THEN [kind |-> "Ok", fourcc |-> as_bytes(s), err |-> ""]
    ELSE [kind |-> "Err", fourcc |-> << >>, err |-> "TryFromSliceError"]

\* impl FromStr for Fourcc: s.as_bytes().try_into()
from_str(s) ==
  IF Len(as_bytes(s)) = 4
    THEN [kind |-> "Ok", fourcc |-> as_bytes(s), err |-> ""]
    ELSE [kind |-> "Err", fourcc |-> << >>, err |-> "TryFromSliceError"]

\* char::from(u8): the char whose code point is the value of the byte
\* (U+0000 to U+00FF).
char_from(b) == b % 256

\* impl fmt::Display for Fourcc: the string of the chars of the 4 bytes.
display(bytes) == [i \in 1..Len(bytes) |-> char_from(bytes[i])]

\* ------------------------------------------------------------------------
\* Specification: the operations on identifiers
\* ------------------------------------------------------------------------
\* Bound of the strings handed to from_str, in chars.
MaxChars == 5

\* The chars tried: `a`, `-` and the two byte char (c) (U+00A9).
Chars == {97, 45, 169}

Fourccs == {FREEFORM, NAME, ALBUM}
Means == {APPLE_ITUNES_MEAN, FREEFORM}
Names == {<<73, 83, 82, 67>>, NAME}

Idents ==
  {FourccOf(f) : f \in Fourccs} \cup {DataIdentFourcc(f) : f \in Fourccs}
    \cup {FreeformIdentNew(m, n) : m \in Means, n \in Names}
    \cup {DataIdentFreeform(m, n) : m \in Means, n \in Names}

IdentInputs ==
  {[entry |-> "eq", a |-> a, b |-> b] : a \in Idents, b \in {x \in Idents : IsDataIdent(x)}}
    \cup {[entry |-> "idents_match", a |-> a, b |-> b] : a \in Idents, b \in Idents}
    \cup {[entry |-> "from_str", s |-> s] : s \in SeqsUpTo(Chars, MaxChars)}
    \cup {[entry |-> "display", f |-> f] : f \in Fourccs}

InitIdent ==
  /\ input \in IdentInputs
  /\ stream = << >>
  /\ pos = 0
  /\ atoms = << >>
  /\ stack = << >>
  /\ ret = "none"
  /\ result = Pending
  /\ output = << >>

\* a == b
IdentEq ==
  /\ result = Pending /\ input.entry = "eq"
  /\ result' = [kind |-> "Bool", val |-> ident_eq(input.a, input.b)]
  /\ UNCHANGED <<output, input, stream, pos, atoms, stack, ret>>

\* idents_match(&a, &b)
IdentsMatch ==
  /\ result = Pending /\ input.entry = "idents_match"
  /\ result' = [kind |-> "Bool", val |-> idents_match(input.a, input.b)]
  /\ UNCHANGED <<output, input, stream, pos, atoms, stack, ret>>

\* s.parse::<Fourcc>()
FourccFromStr ==
  /\ result = Pending /\ input.entry = "from_str"
  /\ result' = from_str(input.s)
  /\ UNCHANGED <<output, input, stream, pos, atoms, stack, ret>>

\* f.to_string(): the rendered string is kept in `output`.
FourccDisplay ==
  /\ result = Pending /\ input.entry = "display" /\ output = << >>
  /\ output' = display(input.f)
  /\ UNCHANGED <<input, stream, pos, atoms, stack, ret, result>>

\* f.to_string().parse::<Fourcc>()
FourccFromDisplay ==
  /\ result = Pending /\ input.entry = "display" /\ output # << >>
  /\ result' = from_str(output)
  /\ UNCHANGED <<output, input, stream, pos, atoms, stack, ret>>

NextIdent ==
  \/ IdentEq
  \/ IdentsMatch
  \/ FourccFromStr
  \/ FourccDisplay
  \/ FourccFromDisplay

SpecIdent == InitIdent /\ [][NextIdent]_vars

\* ------------------------------------------------------------------------
\* Properties of the identifiers (specification SpecIdent)
\* ------------------------------------------------------------------------
\* The variant and the payload of an identifier, whatever holds it.
VariantOf(x) ==
  IF x.impl \in {"Fourcc", "DataIdent::Fourcc"} THEN "fourcc" ELSE "freeform"

SameIdent(a, b) ==
  /\ VariantOf(a) = VariantOf(b)
  /\ IF VariantOf(a) = "fourcc" THEN a.bytes = b.bytes
     ELSE a.mean = b.mean /\ a.name = b.name

\* C8: `==` between any identifier and a DataIdent, and idents_match on any
\* two identifiers, hold iff both are the same variant with the same
\* payload (so a fourcc never equals a freeform identifier, two freeform
\* identifiers with the same mean and name are equal, and idents_match
\* answers as `==` does).
C8_IdentEquality ==
  (result # Pending /\ input.entry \in {"eq", "idents_match"}) =>
     result.val = SameIdent(input.a, input.b)

\* A borrowed freeform identifier was found equal to the owned one with
\* the same mean and name.
C8_Witness ==
  /\ input = [entry |-> "eq", a |-> FreeformIdentNew(APPLE_ITUNES_MEAN, NAME),
              b |-> DataIdentFreeform(APPLE_ITUNES_MEAN, NAME)]
  /\ result # Pending
  /\ result.val = TRUE

\* The number of bytes of the UTF-8 encoding of a string.
RECURSIVE ByteLength(_)
ByteLength(s) ==
  IF s = << >> THEN 0
  ELSE (IF Head(s) < 128 THEN 1 ELSE IF Head(s) < 2048 THEN 2 ELSE 3)
         + ByteLength(Tail(s))

Zeros(n) == [i \in 1..n |-> 0]

\* The 4 bytes of a type code.
U32OfUsize(x) == <<x.hi % 256, (x.lo \div 65536) % 256, (x.lo \div 256) % 256, x.lo % 256>>

\* The encoded payload of a data value: as it is for a raw payload, after
\* the type code and the locale for a typed one.
write_data(variant, d) ==
  IF variant = "TypedData" THEN U32OfUsize(d.code) \o U32(0) \o d.bytes
  ELSE d.bytes

\* An atom is written depth-first: the content is encoded first (children
\* in list order), then the head is put before it, with the length field
\* 8 + offset + the encoded length of the content.
RECURSIVE write_atom(_, _)
write_atom(heap, n) ==
  LET a == heap[n]
      c == IF a.content.variant = "Atoms"
             THEN Flatten([i \in 1..Len(a.content.atoms) |->
                             write_atom(heap, a.content.atoms[i])])
           ELSE IF a.content.variant = "Empty" THEN << >>
           ELSE write_data(a.content.variant, a.content.data)
  IN  U32(HeadLen + a.offset + Len(c)) \o a.head \o Zeros(a.offset) \o c

\* ------------------------------------------------------------------------
\* Specification: parse a written tree, then write the parsed tree
\* ------------------------------------------------------------------------
\* Bound of the texts of the written tree, in bytes.
MaxText == 2

MEAN == <<109, 101, 97, 110>>

\* The texts tried: 1 to MaxText times the letter A.
Texts == {[i \in 1..n |-> 65] : n \in 1..MaxText}

\* The template of a container (`ilst`, node 1) with a typed-data leaf
\* (title > data, nodes 2 and 3) and, when asked for, a freeform triple
\* (`----` > mean, name, data, nodes 4 to 7; mean and name at offset 4).
RoundTripTemplate(freeform) ==
  [n \in 1..7 |->
     CASE n = 1 -> AtomWith(ITEM_LIST, 0,
                            ContentAtoms(IF freeform THEN <<2, 4>> ELSE <<2>>))
       [] n = 2 -> AtomWith(TITLE, 0, ContentAtoms(<<3>>))
       [] n = 3 -> DataAtom
       [] n = 4 -> AtomWith(FREEFORM, 0, ContentAtoms(<<5, 6, 7>>))
       [] n = 5 -> AtomWithRawData(MEAN, 4, EmptyUtf8)
       [] n = 6 -> AtomWithRawData(NAME, 4, EmptyUtf8)
       [] n = 7 -> DataAtom]

\* The tree that is written: the template with its values.
RoundTripTree(i) ==
  LET t == RoundTripTemplate(i.freeform)
      text(b) == ContentRawData(Decode("Utf8", Usize(1), b))
      typed(code, b) == ContentTypedData(Decode(TypeName(Usize(code)), Usize(code), b))
  IN  [n \in 1..7 |->
         CASE n = 3 -> [t[n] EXCEPT !.content = typed(i.code, i.title)]
           [] n = 5 -> [t[n] EXCEPT !.content = text(i.mean)]
           [] n = 6 -> [t[n] EXCEPT !.content = text(i.name)]
           [] n = 7 -> [t[n] EXCEPT !.content = typed(i.code, i.value)]
           [] OTHER -> t[n]]

\* The type codes tried: UTF-8, JPEG and an unrecognized one.
Codes == {1, 13, 99}

RoundTripInputs ==
  {[entry |-> "round_trip", freeform |-> f, code |-> c, title |-> t,
    mean |-> m, name |-> n, value |-> v] :
     f \in BOOLEAN, c \in Codes, t \in Texts, m \in Texts, n \in Texts, v \in Texts}

InitRoundTrip ==
  /\ input \in {i \in RoundTripInputs :
                  ~i.freeform => (i.mean = <<65>> /\ i.name = <<65>> /\ i.value = <<65>>)}
  /\ stream = write_atom(RoundTripTree(input), 1)
  /\ pos = 0
  /\ atoms = RoundTripTemplate(input.freeform)
  /\ stack = <<ParseFrame(1, 0)>>
  /\ ret = "none"
  /\ result = Pending
  /\ output = << >>

\* The parsed tree is written.
Write ==
  /\ result = OkResult /\ output = << >>
  /\ output' = write_atom(atoms, 1)
  /\ UNCHANGED <<input, stream, pos, atoms, stack, ret, result>>

NextRoundTrip ==
  \/ ParseStep
  \/ ParseReturn
  \/ AtomsStep
  \/ AtomsResume
  \/ AtomsReturn
  \/ Write

SpecRoundTrip == InitRoundTrip /\ [][NextRoundTrip]_vars

\* ------------------------------------------------------------------------
\* Properties of the round trip (specification SpecRoundTrip)
\* ------------------------------------------------------------------------
\* C10: for a self-consistent tree with a container, a typed-data leaf and
\* a freeform mean/name/data triple, the parse of its bytes succeeds and
\* writing the parsed tree gives back those bytes.
C10_RoundTrip ==
  (input.freeform /\ ~Running) =>
     /\ result = OkResult
     /\ output # << >> => output = stream

\* Without an atom that has both an offset and a payload the bytes come
\* back as they were.
RoundTripWithoutOffset ==
  (~input.freeform /\ ~Running) =>
     /\ result = OkResult
     /\ output # << >> => output = stream

RoundTripWritten == ~(~input.freeform /\ output # << >> /\ output = stream)

\* ------------------------------------------------------------------------
\* Properties of Atom::parse_content (specification Spec)
\* ------------------------------------------------------------------------
\* C11: the child scan of a matched atom of declared length L > 8 with a
\* non-zero offset (`meta`, offset 4) is given the budget L - 8 - offset,
\* the bytes that remain inside the atom after the skipped offset.
C11_OffsetBudget ==
  \A k \in 2..Len(stack) :
    (stack[k].fn = "parse_atoms" /\ atoms[stack[k - 1].node].offset # 0) =>
       LET o == atoms[stack[k - 1].node].offset
           L == LengthAt(stack[k].start - o - HeadLen)
       IN  /\ L.hi = 0
           /\ stack[k].length = Usize(L.lo - HeadLen - o)

\* The next step reads the head of an atom of declared length L that
\* matches a template with a non-zero offset, and 8 < L < 8 + offset.
OffsetUnderrun ==
  /\ Running /\ Top.pc = "loop" /\ ret = "none"
  /\ Len(stream) - pos >= HeadLen
  /\ LengthAt(pos).hi = 0
  /\ \E n \in DOMAIN atoms :
       /\ HeadAt(pos) = atoms[n].head
       /\ atoms[n].offset # 0
       /\ LengthAt(pos).lo > HeadLen
       /\ LengthAt(pos).lo < HeadLen + atoms[n].offset
       /\ \/ Top.fn = "parse" /\ n = Top.node
          \/ /\ Top.fn = "parse_atoms"
             /\ Less(Top.parsed_bytes, Top.length) /\ Top.parsed_atoms < Len(Top.list)
             /\ find_template(atoms, Top.list, HeadAt(pos)) # 0
             /\ n = Top.list[find_template(atoms, Top.list, HeadAt(pos))]

\* C16: when the declared length L of a matched atom with a non-zero offset
\* leaves fewer than `offset` body bytes (8 < L < 8 + offset), parse_content
\* fails with a parse error and no byte beyond the declared end of the atom
\* is read.
C16_OffsetWithinAtom ==
  [][ OffsetUnderrun => (result'.kind = "Parsing" /\ pos' <= pos + LengthAt(pos).lo) ]_vars

\* ------------------------------------------------------------------------
\* Properties of Atom::parse_atoms, continued (specification SpecAtoms)
\* ------------------------------------------------------------------------
\* The next step reads the head of an atom whose declared length does not
\* fit: in parse_atoms more than what is left of the budget, in parse an
\* atom to skip that is longer than what is left of the stream.
OversizedAtHead ==
  /\ Running /\ Top.pc = "loop" /\ ret = "none"
  /\ Len(stream) - pos >= HeadLen
  /\ \/ /\ Top.fn = "parse_atoms"
        /\ Less(Top.parsed_bytes, Top.length) /\ Top.parsed_atoms < Len(Top.list)
        /\ Less(Top.length, Add(Top.parsed_bytes, LengthAt(pos)))
     \/ /\ Top.fn = "parse"
        /\ HeadAt(pos) # atoms[Top.node].head
        /\ Less(Usize(Len(stream) - pos), LengthAt(pos))

\* C12: an atom whose declared length is larger than the remaining budget
\* of parse_atoms, or larger than the remaining stream when parse must skip
\* it, makes the parse abort with the bounds error BoundsExceeded; it is
\* not skipped, in part or in whole.
C12_BoundsExceeded ==
  [][ OversizedAtHead => (result'.kind = "BoundsExceeded" /\ pos' <= pos + HeadLen) ]_vars

\* The first position in the stream of the atoms with head h, 0 if none.
FirstAt(sibs, h) ==
  IF Positions(sibs, h) = {} THEN 0
  ELSE CHOOSE k \in Positions(sibs, h) : \A j \in Positions(sibs, h) : k <= j

\* The heads of the list that occur among the siblings.
HeadsPresent == {t \in 1..2 : Positions(input.sibs, ListHeads(input.tl)[t]) # {}}

\* C13: when a fourcc occurs more than once among well-framed siblings, only
\* its first occurrence is captured: the template holds the value of the
\* first occurrence when parse_atoms returns, and the number of matches
\* counted never exceeds the number of wanted heads that occur.
C13_FirstOccurrenceKept ==
  (input.tl = "distinct" /\ WellFramed(input.sibs)) =>
     /\ Running => stack[1].parsed_atoms <= Cardinality(HeadsPresent)
     /\ result = OkResult =>
          \A t \in HeadsPresent : HoldsTag(t, FirstAt(input.sibs, ListHeads(input.tl)[t]))

\* C14: parse_atoms stops before its budget is used up only when every
\* template was matched: when the call on well-framed siblings returns Ok
\* with parsed_bytes below the budget, the head of each template of the
\* list occurs among the siblings.
C14_EarlyStopOnlyWhenAllMatched ==
  [][ ( /\ Len(stack) = 1 /\ Top.fn = "parse_atoms" /\ result' = OkResult
        /\ WellFramed(input.sibs)
        /\ Less(Top.parsed_bytes, Top.length) )
      => HeadsPresent = 1..2 ]_vars

\* C15: the Content variant of every atom of the template is, in every
\* state of a parse, the variant the template was built with.
C15_VariantStable ==
  \A n \in DOMAIN atoms :
    atoms[n].content.variant = ListHeap(input.tl)[n].content.variant

\* Every sibling is well-framed; the `data` atom of a tag may be too short.
FramedFields(sibs) == \A k \in 1..Len(sibs) : sibs[k].shape \in {"ok", "bad_data"}

\* C17: a failure while parsing the content of one matched sibling does not
\* end the sibling scan: with well-framed siblings of which some hold a
\* malformed field, parse_atoms returns Ok and every wanted sibling that is
\* not malformed is parsed into its template.
C17_MalformedFieldAbsorbed ==
  (/\ input.tl = "distinct" /\ FramedFields(input.sibs) /\ NoDuplicates(input.sibs)
   /\ ~Running) =>
     /\ result = OkResult
     /\ \A t \in 1..2 :
          \A k \in Positions(input.sibs, ListHeads(input.tl)[t]) :
            input.sibs[k].shape = "ok" => HoldsTag(t, k)

\* C19: between the iterations of parse_atoms the counter parsed_bytes is
\* the number of bytes the reader has consumed since the call began.
C19_ParsedBytesIsConsumed ==
  \A k \in 1..Len(stack) :
    (stack[k].fn = "parse_atoms" /\ stack[k].pc = "loop") =>
       stack[k].parsed_bytes = Usize(pos - stack[k].start)

\* The step changes the template t of the list or its child.
Touched(t) == atoms'[t] # atoms[t] \/ atoms'[t + 2] # atoms[t + 2]

\* The head of the sibling the outermost call is handling: the one read in
\* this step, or the one whose content is being parsed.
HandledHead ==
  IF Len(stack) = 1 THEN HeadAt(pos) ELSE HeadAt(stack[2].start - HeadLen)

\* C20: the frame condition of parse_atoms.  A step changes at most one
\* template of the list, the one that matched the sibling being handled; a
\* template whose head does not occur among the (well-framed) siblings stays
\* as built; and parse_atoms on well-framed siblings that lack the head of
\* a template returns Ok.
C20_FrameCondition ==
  /\ [][ /\ \A t \in 1..2 :
              Touched(t) =>
                /\ HandledHead = atoms[t].head
                /\ Len(stack) > 1 => stack[1].node = t
                /\ \A u \in 1..2 : Touched(u) => u = t
       ]_vars
  /\ [](WellFramed(input.sibs) =>
          /\ \A t \in (1..2) \ HeadsPresent : AsBuilt(t)
          /\ (HeadsPresent # 1..2 /\ ~Running) => result = OkResult)

\* parse_atoms has used up its budget on an unknown atom and a tag, and
\* returned Ok with the template of the missing tag as built.
C20_Witness ==
  /\ input.tl = "distinct"
  /\ input.sibs = << [head |-> FREE, shape |-> "ok"], [head |-> ALBUM, shape |-> "ok"] >>
  /\ result = OkResult
  /\ pos = Budget(input)
  /\ HoldsTag(1, 2) /\ AsBuilt(2)

\* ------------------------------------------------------------------------
\* Termination of Atom::parse (specification SpecLive)
\* ------------------------------------------------------------------------
\* The steps that read the stream, and the condition under which one of
\* them can be taken: the loop of the innermost call is at its top (the
\* body of the loop is total, so its guard is its enabling condition).
ReadStep == ParseStep \/ AtomsStep

ReadStepEnabled ==
  /\ Running /\ Top.pc = "loop" /\ ret = "none"
  /\ Top.fn = "parse" \/ (Top.fn = "parse_atoms" /\ atoms_continue(Top))

\* The steps that only pass control between the calls.
ControlStep ==
  \/ ReadFromStart
  \/ ParseReturn
  \/ AtomsResume
  \/ AtomsReturn
  \/ ReadFromCheck
  \/ ReadFromFinish

\* read_from is one sequential call that runs to its end: a step is taken
\* whenever one can be.  Weak fairness of the control steps, and weak
\* fairness of the reading steps with their enabling condition written out.
SpecLive ==
  /\ Init /\ [][Next]_vars
  /\ WF_vars(ControlStep)
  /\ ([]<>(~ReadStepEnabled) \/ []<><<ReadStep>>_vars)

\* A call of Atom::parse is running (read_from calls it, as frame 2).
ParseCall == Len(stack) >= 2 /\ stack[2].fn = "parse"

\* The step ends the call of Atom::parse with Ok, with an error.
ParseEndsOk == ParseCall /\ Len(stack') = 1

ParseEndsErr == ParseCall /\ stack' = << >>

\* The call of Atom::parse is about to read a head.
ParseAtHead == ParseCall /\ Len(stack) = 2 /\ stack[2].pc = "loop"

\* Every iteration of Atom::parse consumes at least the 8 bytes of a head,
\* whatever the declared length; Atom::parse ends with Ok only in a step
\* that reads a head equal to the template's, or after the content of such
\* an atom was dispatched; the head before the content being scanned is the
\* template's; and an atom with the template's head is never passed over.
OkOnlyAfterMatch ==
  /\ [][ /\ (ParseAtHead /\ Len(stream) - pos >= HeadLen) => pos' >= pos + HeadLen
         /\ ParseEndsOk =>
              \/ stack[2].pc = "called"
              \/ ParseAtHead /\ Len(stream) - pos >= HeadLen
                             /\ HeadAt(pos) = atoms[stack[2].node].head
         /\ (/\ ParseAtHead /\ Len(stream) - pos >= HeadLen
             /\ HeadAt(pos) = atoms[stack[2].node].head) => stack' # stack
       ]_vars
  /\ []((ParseCall /\ Len(stack) >= 3) =>
          /\ stack[2].pc = "called"
          /\ HeadAt(stack[3].start - atoms[stack[2].node].offset - HeadLen)
               = atoms[stack[2].node].head)

C21_DisplayFromStrRoundTrip ==
  (input.entry = "display" /\ result # Pending) =>
     result = [kind |-> "Ok", fourcc |-> input.f, err |-> ""]

====
